---- MODULE Spec2Model ----
(***************************************************************************)
(* Kanban board service (boards -> lists -> cards) with token              *)
(* authentication and ownership-scoped authorization.                      *)
(*                                                                         *)
(* The database tables are functions from the live primary keys to rows.   *)
(* Primary keys are UUIDs in the code; here they are drawn in order from   *)
(* 1..Max*, and a key is never handed out twice (a counter per table).     *)
(* Free-text columns of lists and cards (title, description, due date,     *)
(* priority) carry no behaviour and are left out; a board keeps its title  *)
(* so that update_board has something to write. The detail of a Forbidden  *)
(* response names the verb ("Not authorized to move this card"); here it   *)
(* is "Not authorized" for every handler.                                  *)
(*                                                                         *)
(* An optional value is a sequence of length at most one.                  *)
(***************************************************************************)
EXTENDS Integers, Sequences, FiniteSets, TLC

\* ------------------------------------------------------------------ bounds
MaxUsers == 2
MaxBoards == 2
MaxLists == 2
MaxCards == 2
MaxPos == 1
MaxTitle == 0
MaxName == 2
MaxPassword == 1
MaxReorders == 2
DefaultLimit == 100

UserIds == 1..MaxUsers
BoardIds == 1..MaxBoards
ListIds == 1..MaxLists
CardIds == 1..MaxCards
Positions == 0..MaxPos
Titles == 0..MaxTitle
Emails == 1..MaxName
\* A username: 0 is the empty string, which the schemas admit.
Usernames == 0..MaxName
Passwords == 1..MaxPassword
\* A password typed in: one of the passwords, or 0, which is nobody's.
Attempts == 0..MaxPassword
\* Pagination of list_boards: skip, and a limit below and at the default.
Skips == 0..1
Limits == {1, DefaultLimit}

None == <<>>
Some(x) == <<x>>
Opt(S) == {None} \cup {Some(x) : x \in S}

\* A bearer token: the user id it was issued for, or None for a missing,
\* malformed or expired one.
Tokens == Opt(UserIds)

\* ------------------------------------------------------------- status codes
HTTP_200_OK == 200
HTTP_201_CREATED == 201
HTTP_204_NO_CONTENT == 204
HTTP_400_BAD_REQUEST == 400
HTTP_401_UNAUTHORIZED == 401
HTTP_403_FORBIDDEN == 403
HTTP_404_NOT_FOUND == 404
\* An exception no handler catches (AttributeError on a missing parent).
HTTP_500_INTERNAL_SERVER_ERROR == 500

\* ------------------------------------------------------------------- state
VARIABLES
  users,      \* table users:  id -> [email, username, hashed_password, is_active]
  boards,     \* table boards: id -> [owner_id, title]
  lists,      \* table lists:  id -> [board_id, position]
  cards,      \* table cards:  id -> [list_id, position]
  nextBoard,  \* number of board keys handed out so far
  nextList,   \* number of list keys handed out so far
  nextCard,   \* number of card keys handed out so far
  resp,       \* the request being answered and its response; Idle between requests
  before,     \* history: the database as the request being answered found it
  mv,         \* the move_card request in flight, statement by statement; NoMove if none
  ro          \* the reorder_card requests in flight, statement by statement

db == <<users, boards, lists, cards, nextBoard, nextList, nextCard>>
vars == <<users, boards, lists, cards, nextBoard, nextList, nextCard, resp, before, mv, ro>>

Snapshot ==
  [users |-> users, boards |-> boards, lists |-> lists, cards |-> cards,
   nextBoard |-> nextBoard, nextList |-> nextList, nextCard |-> nextCard]

\* ------------------------------------------------------------ collaborators
\* Password hashing (app.core.security): a digest that equals only the digest
\* of the same password.
get_password_hash(password) == <<"hash", password>>
verify_password(plain, hashed) == hashed = get_password_hash(plain)

\* Token verification (app.core.security): the subject of a valid token.
decode_access_token(token) == token

\* CRUDBase.get: the row with this primary key, or None.
crud_get(table, id) == IF id \in DOMAIN table THEN Some(table[id]) ELSE None

\* CRUDBase.update: assign the fields the request sets (exclude_unset).
crud_update(row, obj_in) ==
  [f \in DOMAIN row |->
     IF f \in DOMAIN obj_in /\ obj_in[f] # None THEN obj_in[f][1] ELSE row[f]]

\* Remove key k from a table.
Without(table, ks) == [k \in DOMAIN table \ ks |-> table[k]]
With(table, k, row) == [j \in DOMAIN table \cup {k} |-> IF j = k THEN row ELSE table[j]]

\* ---------------------------------------------------------------- responses
Response(op, token, args, code, detail, body) ==
  [op |-> op, token |-> token, args |-> args, code |-> code,
   detail |-> detail, body |-> body]

Outcome(code, detail) == [code |-> code, detail |-> detail]
Passed == Outcome(HTTP_200_OK, "")

UserOut(id) == [id |-> id, email |-> users[id].email, username |-> users[id].username,
                is_active |-> users[id].is_active]

\* ----------------------------------------------------------- authentication
\* deps.get_current_user followed by deps.get_current_active_user.
get_current_user(token) ==
  LET sub == decode_access_token(token) IN
  IF sub = None THEN Outcome(HTTP_401_UNAUTHORIZED, "Could not validate credentials")
  ELSE IF crud_get(users, sub[1]) = None
       THEN Outcome(HTTP_401_UNAUTHORIZED, "Could not validate credentials")
       ELSE Passed

\* Faulty variant: the is_active test left out.
get_current_active_user_any(token) == get_current_user(token)

get_current_active_user(token) ==
  LET u == get_current_user(token) IN
  IF u # Passed THEN u
  ELSE IF ~users[token[1]].is_active
       THEN Outcome(HTTP_400_BAD_REQUEST, "Inactive user")
       ELSE Passed

\* -------------------------------------------------------------- crud.user
get_by_email(email) == {u \in DOMAIN users : users[u].email = email}
get_by_username(username) == {u \in DOMAIN users : users[u].username = username}

authenticate(email, password) ==
  {u \in get_by_email(email) : verify_password(password, users[u].hashed_password)}

\* ------------------------------------------------------------ endpoints.auth
\* Faulty variant: the username is looked up before the email.
register_check_username_first(email, username) ==
  IF get_by_username(username) # {}
  THEN Outcome(HTTP_400_BAD_REQUEST, "Username already taken")
  ELSE IF get_by_email(email) # {}
       THEN Outcome(HTTP_400_BAD_REQUEST, "Email already registered")
       ELSE Passed

\* Faulty variant: a taken email or username is reported as not found.
register_check_not_found(email, username) ==
  IF get_by_email(email) # {}
  THEN Outcome(HTTP_404_NOT_FOUND, "Email already registered")
  ELSE IF get_by_username(username) # {}
       THEN Outcome(HTTP_404_NOT_FOUND, "Username already taken")
       ELSE Passed

register_check(email, username) ==
  IF get_by_email(email) # {}
  THEN Outcome(HTTP_400_BAD_REQUEST, "Email already registered")
  ELSE IF get_by_username(username) # {}
       THEN Outcome(HTTP_400_BAD_REQUEST, "Username already taken")
       ELSE Passed

register(email, username, password) ==
  LET o == register_check(email, username)
      args == [email |-> email, username |-> username]
      id == Cardinality(DOMAIN users) + 1
  IN  IF o # Passed
      THEN /\ resp' = Response("register", None, args, o.code, o.detail, None)
           /\ UNCHANGED db
      ELSE /\ id \in UserIds
           /\ users' = With(users, id,
                 [email |-> email, username |-> username,
                  hashed_password |-> get_password_hash(password),
                  is_active |-> TRUE])
           /\ resp' = Response("register", None, args, HTTP_201_CREATED, "",
                               Some([id |-> id, email |-> email, username |-> username,
                                     is_active |-> TRUE]))
           /\ UNCHANGED <<boards, lists, cards, nextBoard, nextList, nextCard>>

\* Faulty variant: the is_active test left out.
login_check_ignores_active(email, password) ==
  IF authenticate(email, password) = {}
  THEN Outcome(HTTP_401_UNAUTHORIZED, "Incorrect email or password")
  ELSE Passed

login_check(email, password) ==
  LET found == authenticate(email, password) IN
  IF found = {}
  THEN Outcome(HTTP_401_UNAUTHORIZED, "Incorrect email or password")
  ELSE IF \E u \in found : ~users[u].is_active
       THEN Outcome(HTTP_400_BAD_REQUEST, "Inactive user")
       ELSE Passed

login(email, password) ==
  LET o == login_check(email, password)
      args == [email |-> email, password |-> password]
  IN  /\ resp' = IF o # Passed
                 THEN Response("login", None, args, o.code, o.detail, None)
                 ELSE Response("login", None, args, HTTP_200_OK, "",
                               Some([access_token |->
                                       Some(CHOOSE u \in authenticate(email, password) : TRUE)]))
      /\ UNCHANGED db

read_current_user(token) ==
  LET o == get_current_active_user(token) IN
  /\ resp' = IF o # Passed
             THEN Response("read_current_user", token, <<>>, o.code, o.detail, None)
             ELSE Response("read_current_user", token, <<>>, HTTP_200_OK, "",
                           Some(UserOut(token[1])))
  /\ UNCHANGED db

\* ----------------------------------------------------------- endpoints.users
\* `if user_in.email and ...`: the truth value of a string, false for the
\* empty one.
Truthy(s) == s # 0

\* Faulty variant: the tables have no unique constraint.
UniqueUsers_unenforced(table) == TRUE

\* unique=True on users.email and users.username.
UniqueUsers(table) ==
  \A u, v \in DOMAIN table :
    u # v => table[u].email # table[v].email /\ table[u].username # table[v].username

update_user_me_check(token, user_in) ==
  LET a == get_current_active_user(token) IN
  IF a # Passed THEN a
  ELSE IF /\ user_in.email # None
          /\ Truthy(user_in.email[1])
          /\ user_in.email[1] # users[token[1]].email
          /\ get_by_email(user_in.email[1]) # {}
       THEN Outcome(HTTP_400_BAD_REQUEST, "Email already registered")
       ELSE IF /\ user_in.username # None
               /\ Truthy(user_in.username[1])
               /\ user_in.username[1] # users[token[1]].username
               /\ get_by_username(user_in.username[1]) # {}
            THEN Outcome(HTTP_400_BAD_REQUEST, "Username already taken")
            ELSE Passed

update_user_me_write(token, user_in) ==
  [users EXCEPT ![token[1]] = crud_update(@, user_in)]

update_user_me(token, user_in) ==
  LET o == update_user_me_check(token, user_in) IN
  IF o # Passed
  THEN /\ resp' = Response("update_user_me", token, user_in, o.code, o.detail, None)
       /\ UNCHANGED db
  ELSE IF ~UniqueUsers(update_user_me_write(token, user_in))
  THEN /\ resp' = Response("update_user_me", token, user_in,
                           HTTP_500_INTERNAL_SERVER_ERROR, "IntegrityError", None)
       /\ UNCHANGED db
  ELSE /\ users' = update_user_me_write(token, user_in)
       /\ resp' = Response("update_user_me", token, user_in, HTTP_200_OK, "",
                           Some([id |-> token[1], email |-> users'[token[1]].email,
                                 username |-> users'[token[1]].username,
                                 is_active |-> users'[token[1]].is_active]))
       /\ UNCHANGED <<boards, lists, cards, nextBoard, nextList, nextCard>>

update_password_me_check(token, current_password) ==
  LET a == get_current_active_user(token) IN
  IF a # Passed THEN a
  ELSE IF ~verify_password(current_password, users[token[1]].hashed_password)
       THEN Outcome(HTTP_400_BAD_REQUEST, "Incorrect password")
       ELSE Passed

update_password_me(token, current_password, new_password) ==
  LET o == update_password_me_check(token, current_password) IN
  IF o # Passed
  THEN /\ resp' = Response("update_password_me", token, <<>>, o.code, o.detail, None)
       /\ UNCHANGED db
  ELSE /\ users' = [users EXCEPT ![token[1]].hashed_password =
                                     get_password_hash(new_password)]
       /\ resp' = Response("update_password_me", token, <<>>, HTTP_200_OK, "",
                           Some(UserOut(token[1])))
       /\ UNCHANGED <<boards, lists, cards, nextBoard, nextList, nextCard>>

UserUpdates == [email : Opt(Emails), username : Opt(Usernames), is_active : Opt(BOOLEAN)]

\* -------------------------------------------------------------- crud.board
create_with_owner(title, owner_id) == [owner_id |-> owner_id, title |-> title]

\* Faulty variant: the query without its owner filter.
get_multi_by_owner_unfiltered(owner_id) == DOMAIN boards

get_multi_by_owner(owner_id) == {b \in DOMAIN boards : boards[b].owner_id = owner_id}

\* Faulty variant: the query without its ORDER BY.
Orderings_unordered(ks, table) ==
  {s \in [1..Cardinality(ks) -> ks] :
     \A i, j \in 1..Cardinality(ks) : i # j => s[i] # s[j]}

\* The rows of `table` with these keys in ascending order of position; rows
\* of equal position come in any order (ORDER BY position names no second key).
Orderings(ks, table) ==
  {s \in [1..Cardinality(ks) -> ks] :
     /\ \A i, j \in 1..Cardinality(ks) : i # j => s[i] # s[j]
     /\ \A i, j \in 1..Cardinality(ks) :
          i < j => table[s[i]].position <= table[s[j]].position}

\* Any order at all (a query with no ORDER BY).
AnyOrder(ks) ==
  {s \in [1..Cardinality(ks) -> ks] :
     \A i, j \in 1..Cardinality(ks) : i # j => s[i] # s[j]}

\* Faulty variant: the cards joined to a list without the list_id condition.
CardsOf_unfiltered(l) == DOMAIN cards

\* Board.lists and List.cards: the children a relationship loads.
ListsOf(b) == {l \in DOMAIN lists : lists[l].board_id = b}
CardsOf(l) == {c \in DOMAIN cards : cards[c].list_id = l}

BoardOut(id) == [id |-> id, owner_id |-> boards[id].owner_id, title |-> boards[id].title]
ListOut(id) == [id |-> id, board_id |-> lists[id].board_id, position |-> lists[id].position]
CardOut(id) == [id |-> id, list_id |-> cards[id].list_id, position |-> cards[id].position]

\* get_with_details: the board with its lists and their cards, every
\* collection ordered by position. The set of results the query may give.
get_with_details(id) ==
  IF id \notin DOMAIN boards THEN {}
  ELSE {[id |-> id, owner_id |-> boards[id].owner_id, title |-> boards[id].title,
         lists |-> [i \in DOMAIN lo |->
                      [id |-> lo[i], board_id |-> id, position |-> lists[lo[i]].position,
                       cards |-> [k \in DOMAIN co[lo[i]] |-> CardOut(co[lo[i]][k])]]]] :
          lo \in Orderings(ListsOf(id), lists),
          co \in {f \in [ListsOf(id) -> UNION {Orderings(CardsOf(l), cards) : l \in ListsOf(id)}] :
                    \A l \in ListsOf(id) : f[l] \in Orderings(CardsOf(l), cards)}}

\* Faulty variants: a relationship declared without the delete cascade.
CascadeCards_none(ls) == {}
CascadeLists_none(bs) == {}

\* cascade="all, delete-orphan" on Board.lists and on List.cards.
CascadeCards(ls) == {c \in DOMAIN cards : cards[c].list_id \in ls}
CascadeLists(bs) == {l \in DOMAIN lists : lists[l].board_id \in bs}

\* crud.list.get_multi_by_board and crud.card.get_multi_by_list: the keys of
\* the rows in the order the query may return them.
get_multi_by_board(board_id) == Orderings(ListsOf(board_id), lists)
get_multi_by_list(list_id) == Orderings(CardsOf(list_id), cards)

\* ------------------------------------------------------- endpoints.boards
list_boards(token, skip, limit) ==
  LET o == get_current_active_user(token)
      args == [skip |-> skip, limit |-> limit]
  IN  /\ IF o # Passed
         THEN resp' = Response("list_boards", token, args, o.code, o.detail, None)
         ELSE \E s \in AnyOrder(get_multi_by_owner(token[1])) :
                resp' = Response("list_boards", token, args, HTTP_200_OK, "",
                          Some([i \in 1..(IF Len(s) - skip < limit
                                          THEN (IF Len(s) < skip THEN 0 ELSE Len(s) - skip)
                                          ELSE limit) |-> BoardOut(s[i + skip])]))
      /\ UNCHANGED db

\* Faulty variant: the new board gets the lowest id no stored board has.
create_board_reuses_id(token, title) ==
  LET o == get_current_active_user(token)
      args == [title |-> title]
      free == BoardIds \ DOMAIN boards
      id == IF free = {} THEN 0 ELSE CHOOSE i \in free : \A j \in free : i <= j
  IN  IF o # Passed
      THEN /\ resp' = Response("create_board", token, args, o.code, o.detail, None)
           /\ UNCHANGED db
      ELSE /\ id \in BoardIds
           /\ boards' = With(boards, id, create_with_owner(title, token[1]))
           /\ nextBoard' = IF id > nextBoard THEN id ELSE nextBoard
           /\ resp' = Response("create_board", token, args, HTTP_201_CREATED, "",
                               Some([id |-> id, owner_id |-> token[1], title |-> title]))
           /\ UNCHANGED <<users, lists, cards, nextList, nextCard>>

create_board(token, title) ==
  LET o == get_current_active_user(token)
      args == [title |-> title]
      id == nextBoard + 1
  IN  IF o # Passed
      THEN /\ resp' = Response("create_board", token, args, o.code, o.detail, None)
           /\ UNCHANGED db
      ELSE /\ id \in BoardIds
           /\ boards' = With(boards, id, create_with_owner(title, token[1]))
           /\ nextBoard' = id
           /\ resp' = Response("create_board", token, args, HTTP_201_CREATED, "",
                               Some([id |-> id, owner_id |-> token[1], title |-> title]))
           /\ UNCHANGED <<users, lists, cards, nextList, nextCard>>

\* Faulty variant: the owner comparison left out.
board_check_no_owner(token, board_id) ==
  LET a == get_current_active_user(token) IN
  IF a # Passed THEN a
  ELSE IF crud_get(boards, board_id) = None
       THEN Outcome(HTTP_404_NOT_FOUND, "Board not found")
       ELSE Passed

\* The checks every board-level handler makes after authentication.
board_check(token, board_id) ==
  LET a == get_current_active_user(token) IN
  IF a # Passed THEN a
  ELSE IF crud_get(boards, board_id) = None
       THEN Outcome(HTTP_404_NOT_FOUND, "Board not found")
       ELSE IF boards[board_id].owner_id # token[1]
            THEN Outcome(HTTP_403_FORBIDDEN, "Not authorized")
            ELSE Passed

get_board(token, board_id) ==
  LET o == board_check(token, board_id)
      args == [id |-> board_id]
  IN  /\ IF o # Passed
         THEN resp' = Response("get_board", token, args, o.code, o.detail, None)
         ELSE \E d \in get_with_details(board_id) :
                resp' = Response("get_board", token, args, HTTP_200_OK, "", Some(d))
      /\ UNCHANGED db

\* Faulty variant: the fields the schema does not declare are kept.
BoardUpdate_keeps_extra(body) == body

\* BoardUpdate: the request body parsed by the schema, which declares title
\* (and description) and drops every other field of the body.
BoardUpdate(body) == [title |-> body.title]

update_board(token, board_id, board_in) ==
  LET o == board_check(token, board_id)
      args == [id |-> board_id, title |-> board_in.title, owner_id |-> board_in.owner_id]
  IN  IF o # Passed
      THEN /\ resp' = Response("update_board", token, args, o.code, o.detail, None)
           /\ UNCHANGED db
      ELSE /\ boards' = [boards EXCEPT ![board_id] = crud_update(@, BoardUpdate(board_in))]
           /\ resp' = Response("update_board", token, args, HTTP_200_OK, "",
                               Some([id |-> board_id, owner_id |-> boards'[board_id].owner_id,
                                     title |-> boards'[board_id].title]))
           /\ UNCHANGED <<users, lists, cards, nextBoard, nextList, nextCard>>

delete_board(token, board_id) ==
  LET o == board_check(token, board_id)
      args == [id |-> board_id]
  IN  IF o # Passed
      THEN /\ resp' = Response("delete_board", token, args, o.code, o.detail, None)
           /\ UNCHANGED db
      ELSE /\ boards' = Without(boards, {board_id})
           /\ lists' = Without(lists, CascadeLists({board_id}))
           /\ cards' = Without(cards, CascadeCards(CascadeLists({board_id})))
           /\ resp' = Response("delete_board", token, args, HTTP_204_NO_CONTENT, "", None)
           /\ UNCHANGED <<users, nextBoard, nextList, nextCard>>

BoardUpdates == [title : Opt(Titles), owner_id : Opt(UserIds)]

\* --------------------------------------------------------------- crud.list
\* ListCreate.position: int = 0 (the position of the request body, 0 when the
\* body has none).
ListCreate(position) == IF position = None THEN 0 ELSE position[1]

create_in_board(position, board_id) == [board_id |-> board_id, position |-> position]

list_reorder(list_id, new_position) == [lists EXCEPT ![list_id].position = new_position]

\* -------------------------------------------------------- endpoints.lists
\* Faulty variant: the owner comparison left out.
list_check_no_owner(token, list_id) ==
  LET a == get_current_active_user(token) IN
  IF a # Passed THEN a
  ELSE IF crud_get(lists, list_id) = None
       THEN Outcome(HTTP_404_NOT_FOUND, "List not found")
       ELSE Passed

\* The checks every list-level handler makes after authentication: the list,
\* then its board (read without a check that it was found), then the owner.
list_check(token, list_id) ==
  LET a == get_current_active_user(token) IN
  IF a # Passed THEN a
  ELSE IF crud_get(lists, list_id) = None
       THEN Outcome(HTTP_404_NOT_FOUND, "List not found")
       ELSE IF crud_get(boards, lists[list_id].board_id) = None
            THEN Outcome(HTTP_500_INTERNAL_SERVER_ERROR, "AttributeError")
            ELSE IF boards[lists[list_id].board_id].owner_id # token[1]
                 THEN Outcome(HTTP_403_FORBIDDEN, "Not authorized")
                 ELSE Passed

create_list(token, board_id, position) ==
  LET o == board_check(token, board_id)
      args == [board_id |-> board_id, position |-> position]
      id == nextList + 1
  IN  IF o # Passed
      THEN /\ resp' = Response("create_list", token, args, o.code, o.detail, None)
           /\ UNCHANGED db
      ELSE /\ id \in ListIds
           /\ lists' = With(lists, id, create_in_board(ListCreate(position), board_id))
           /\ nextList' = id
           /\ resp' = Response("create_list", token, args, HTTP_201_CREATED, "",
                               Some([id |-> id, board_id |-> lists'[id].board_id,
                                     position |-> lists'[id].position]))
           /\ UNCHANGED <<users, boards, cards, nextBoard, nextCard>>

get_list(token, list_id) ==
  LET o == list_check(token, list_id)
      args == [id |-> list_id]
  IN  /\ resp' = IF o # Passed
                 THEN Response("get_list", token, args, o.code, o.detail, None)
                 ELSE Response("get_list", token, args, HTTP_200_OK, "", Some(ListOut(list_id)))
      /\ UNCHANGED db

\* ListUpdate: the request body parsed by the schema, which declares position
\* (and title) and drops every other field of the body.
ListUpdate(body) == [position |-> body.position]

update_list(token, list_id, list_in) ==
  LET o == list_check(token, list_id)
      args == [id |-> list_id, position |-> list_in.position, board_id |-> list_in.board_id]
  IN  IF o # Passed
      THEN /\ resp' = Response("update_list", token, args, o.code, o.detail, None)
           /\ UNCHANGED db
      ELSE /\ lists' = [lists EXCEPT ![list_id] = crud_update(@, ListUpdate(list_in))]
           /\ resp' = Response("update_list", token, args, HTTP_200_OK, "",
                               Some([id |-> list_id, board_id |-> lists'[list_id].board_id,
                                     position |-> lists'[list_id].position]))
           /\ UNCHANGED <<users, boards, cards, nextBoard, nextList, nextCard>>

delete_list(token, list_id) ==
  LET o == list_check(token, list_id)
      args == [id |-> list_id]
  IN  IF o # Passed
      THEN /\ resp' = Response("delete_list", token, args, o.code, o.detail, None)
           /\ UNCHANGED db
      ELSE /\ lists' = Without(lists, {list_id})
           /\ cards' = Without(cards, CascadeCards({list_id}))
           /\ resp' = Response("delete_list", token, args, HTTP_204_NO_CONTENT, "", None)
           /\ UNCHANGED <<users, boards, nextBoard, nextList, nextCard>>

reorder_list(token, list_id, position) ==
  LET o == list_check(token, list_id)
      args == [id |-> list_id, position |-> position]
  IN  IF o # Passed
      THEN /\ resp' = Response("reorder_list", token, args, o.code, o.detail, None)
           /\ UNCHANGED db
      ELSE /\ lists' = list_reorder(list_id, position)
           /\ resp' = Response("reorder_list", token, args, HTTP_200_OK, "",
                               Some([id |-> list_id, board_id |-> lists'[list_id].board_id,
                                     position |-> lists'[list_id].position]))
           /\ UNCHANGED <<users, boards, cards, nextBoard, nextList, nextCard>>

ListUpdates == [position : Opt(Positions), board_id : Opt(BoardIds)]

\* --------------------------------------------------------------- crud.card
\* CardCreate.position: int = 0.
CardCreate(position) == IF position = None THEN 0 ELSE position[1]

\* Faulty variant: the new card is put after the cards the list has.
create_in_list_appends(position, assigned_to_id, list_id) ==
  [list_id |-> list_id, position |-> Cardinality(CardsOf(list_id)),
   assigned_to_id |-> assigned_to_id]

create_in_list(position, assigned_to_id, list_id) ==
  [list_id |-> list_id, position |-> position, assigned_to_id |-> assigned_to_id]

\* ForeignKey("users.id") on cards.assigned_to_id: null, or the key of a
\* stored user.
AssigneeStored(row) ==
  row.assigned_to_id = None \/ row.assigned_to_id[1] \in DOMAIN users

\* Faulty variant: the position assignment left out.
move_to_list_list_only(card_id, list_id, position) ==
  [cards EXCEPT ![card_id].list_id = list_id]

move_to_list(card_id, list_id, position) ==
  [cards EXCEPT ![card_id] = [@ EXCEPT !.list_id = list_id, !.position = position]]

\* Faulty variant: the supplied position is added to the stored one.
card_reorder_by_offset(card_id, new_position) ==
  [cards EXCEPT ![card_id].position = @ + new_position]

\* Faulty variant: the siblings at or after the new position are shifted down.
card_reorder_renumbers(card_id, new_position) ==
  [c \in DOMAIN cards |->
     IF c = card_id THEN [cards[c] EXCEPT !.position = new_position]
     ELSE IF cards[c].list_id = cards[card_id].list_id /\ cards[c].position >= new_position
          THEN [cards[c] EXCEPT !.position = @ + 1]
          ELSE cards[c]]

card_reorder(card_id, new_position) == [cards EXCEPT ![card_id].position = new_position]

\* -------------------------------------------------------- endpoints.cards
\* Faulty variant: a card of another user is reported as missing.
card_check_hides_existence(token, card_id) ==
  LET a == get_current_active_user(token) IN
  IF a # Passed THEN a
  ELSE IF crud_get(cards, card_id) = None
       THEN Outcome(HTTP_404_NOT_FOUND, "Card not found")
       ELSE IF crud_get(lists, cards[card_id].list_id) = None
            THEN Outcome(HTTP_500_INTERNAL_SERVER_ERROR, "AttributeError")
            ELSE IF crud_get(boards, lists[cards[card_id].list_id].board_id) = None
                 THEN Outcome(HTTP_500_INTERNAL_SERVER_ERROR, "AttributeError")
                 ELSE IF boards[lists[cards[card_id].list_id].board_id].owner_id # token[1]
                      THEN Outcome(HTTP_404_NOT_FOUND, "Card not found")
                      ELSE Passed

\* The checks every card-level handler makes after authentication: the card,
\* then its list and that list's board (both read without a check that they
\* were found), then the owner.
card_check(token, card_id) ==
  LET a == get_current_active_user(token) IN
  IF a # Passed THEN a
  ELSE IF crud_get(cards, card_id) = None
       THEN Outcome(HTTP_404_NOT_FOUND, "Card not found")
       ELSE IF crud_get(lists, cards[card_id].list_id) = None
            THEN Outcome(HTTP_500_INTERNAL_SERVER_ERROR, "AttributeError")
            ELSE IF crud_get(boards, lists[cards[card_id].list_id].board_id) = None
                 THEN Outcome(HTTP_500_INTERNAL_SERVER_ERROR, "AttributeError")
                 ELSE IF boards[lists[cards[card_id].list_id].board_id].owner_id # token[1]
                      THEN Outcome(HTTP_403_FORBIDDEN, "Not authorized")
                      ELSE Passed

\* The INSERT of a row whose assigned_to_id names no user is refused
\* (IntegrityError) by a database that enforces the foreign key and is stored
\* by one that does not.
create_card(token, list_id, position, assigned_to_id) ==
  LET o == list_check(token, list_id)
      args == [list_id |-> list_id, position |-> position,
               assigned_to_id |-> assigned_to_id]
      id == nextCard + 1
      row == create_in_list(CardCreate(position), assigned_to_id, list_id)
  IN  IF o # Passed
      THEN /\ resp' = Response("create_card", token, args, o.code, o.detail, None)
           /\ UNCHANGED db
      ELSE /\ id \in CardIds
           /\ \/ /\ ~AssigneeStored(row)
                 /\ resp' = Response("create_card", token, args,
                                     HTTP_500_INTERNAL_SERVER_ERROR, "IntegrityError", None)
                 /\ UNCHANGED db
              \/ /\ cards' = With(cards, id, row)
                 /\ nextCard' = id
                 /\ resp' = Response("create_card", token, args, HTTP_201_CREATED, "",
                                     Some([id |-> id, list_id |-> cards'[id].list_id,
                                           position |-> cards'[id].position]))
                 /\ UNCHANGED <<users, boards, lists, nextBoard, nextList>>

get_card(token, card_id) ==
  LET o == card_check(token, card_id)
      args == [id |-> card_id]
  IN  /\ resp' = IF o # Passed
                 THEN Response("get_card", token, args, o.code, o.detail, None)
                 ELSE Response("get_card", token, args, HTTP_200_OK, "", Some(CardOut(card_id)))
      /\ UNCHANGED db

\* CardUpdate: the request body parsed by the schema, which declares position
\* (and title, description, assigned_to_id, due_date, priority) and drops
\* every other field of the body, list_id among them.
CardUpdate(body) == [position |-> body.position, assigned_to_id |-> body.assigned_to_id]

\* The UPDATE of the row is under the foreign key of assigned_to_id as the
\* INSERT of create_card is.
update_card(token, card_id, card_in) ==
  LET o == card_check(token, card_id)
      args == [id |-> card_id, position |-> card_in.position, list_id |-> card_in.list_id,
               assigned_to_id |-> card_in.assigned_to_id]
      row == crud_update(cards[card_id], CardUpdate(card_in))
  IN  IF o # Passed
      THEN /\ resp' = Response("update_card", token, args, o.code, o.detail, None)
           /\ UNCHANGED db
      ELSE \/ /\ ~AssigneeStored(row)
              /\ row # cards[card_id]
              /\ resp' = Response("update_card", token, args,
                                  HTTP_500_INTERNAL_SERVER_ERROR, "IntegrityError", None)
              /\ UNCHANGED db
           \/ /\ cards' = [cards EXCEPT ![card_id] = row]
              /\ resp' = Response("update_card", token, args, HTTP_200_OK, "",
                                  Some([id |-> card_id, list_id |-> cards'[card_id].list_id,
                                        position |-> cards'[card_id].position]))
              /\ UNCHANGED <<users, boards, lists, nextBoard, nextList, nextCard>>

delete_card(token, card_id) ==
  LET o == card_check(token, card_id)
      args == [id |-> card_id]
  IN  IF o # Passed
      THEN /\ resp' = Response("delete_card", token, args, o.code, o.detail, None)
           /\ UNCHANGED db
      ELSE /\ cards' = Without(cards, {card_id})
           /\ resp' = Response("delete_card", token, args, HTTP_204_NO_CONTENT, "", None)
           /\ UNCHANGED <<users, boards, lists, nextBoard, nextList, nextCard>>

\* Faulty variant: the target list is compared by the owner of its board, not by
\* its board.
move_card_check_by_owner(token, card_id, list_id) ==
  LET o == card_check(token, card_id) IN
  IF o # Passed THEN o
  ELSE IF crud_get(lists, list_id) = None
       THEN Outcome(HTTP_404_NOT_FOUND, "Target list not found")
       ELSE IF crud_get(boards, lists[list_id].board_id) = None
            THEN Outcome(HTTP_500_INTERNAL_SERVER_ERROR, "AttributeError")
            ELSE IF boards[lists[list_id].board_id].owner_id # token[1]
                 THEN Outcome(HTTP_400_BAD_REQUEST,
                              "Cannot move card to a list in a different board")
                 ELSE Passed

\* Faulty variant: the target list is looked up before the owner is compared.
move_card_check_target_first(token, card_id, list_id) ==
  LET a == get_current_active_user(token) IN
  IF a # Passed THEN a
  ELSE IF crud_get(cards, card_id) = None
       THEN Outcome(HTTP_404_NOT_FOUND, "Card not found")
       ELSE IF crud_get(lists, list_id) = None
            THEN Outcome(HTTP_404_NOT_FOUND, "Target list not found")
            ELSE LET o == card_check(token, card_id) IN
                 IF o # Passed THEN o
                 ELSE IF lists[list_id].board_id # lists[cards[card_id].list_id].board_id
                      THEN Outcome(HTTP_400_BAD_REQUEST,
                                   "Cannot move card to a list in a different board")
                      ELSE Passed

\* move_card: the card-level checks, then the target list, then that the
\* target list is in the board of the card's current list.
\* Faulty variant: a move to the list the card is in is refused.
move_card_check_other_list_only(token, card_id, list_id) ==
  LET o == card_check(token, card_id) IN
  IF o # Passed THEN o
  ELSE IF crud_get(lists, list_id) = None
       THEN Outcome(HTTP_404_NOT_FOUND, "Target list not found")
       ELSE IF lists[list_id].board_id # lists[cards[card_id].list_id].board_id
                 \/ list_id = cards[card_id].list_id
            THEN Outcome(HTTP_400_BAD_REQUEST,
                         "Cannot move card to a list in a different board")
            ELSE Passed

move_card_check(token, card_id, list_id) ==
  LET o == card_check(token, card_id) IN
  IF o # Passed THEN o
  ELSE IF crud_get(lists, list_id) = None
       THEN Outcome(HTTP_404_NOT_FOUND, "Target list not found")
       ELSE IF lists[list_id].board_id # lists[cards[card_id].list_id].board_id
            THEN Outcome(HTTP_400_BAD_REQUEST,
                         "Cannot move card to a list in a different board")
            ELSE Passed

\* Faulty variant: the card is moved and committed as soon as the owner check has
\* passed, before the target list is checked.
move_card_commits_early(token, card_id, list_id, position) ==
  LET o == move_card_check(token, card_id, list_id)
      args == [id |-> card_id, list_id |-> list_id, position |-> position]
  IN  IF card_check(token, card_id) # Passed
      THEN /\ resp' = Response("move_card", token, args, o.code, o.detail, None)
           /\ UNCHANGED db
      ELSE /\ cards' = move_to_list(card_id, list_id, position)
           /\ resp' = IF o # Passed
                      THEN Response("move_card", token, args, o.code, o.detail, None)
                      ELSE Response("move_card", token, args, HTTP_200_OK, "",
                                    Some([id |-> card_id, list_id |-> list_id,
                                          position |-> position]))
           /\ UNCHANGED <<users, boards, lists, nextBoard, nextList, nextCard>>

move_card(token, card_id, list_id, position) ==
  LET o == move_card_check(token, card_id, list_id)
      args == [id |-> card_id, list_id |-> list_id, position |-> position]
  IN  IF o # Passed
      THEN /\ resp' = Response("move_card", token, args, o.code, o.detail, None)
           /\ UNCHANGED db
      ELSE /\ cards' = move_to_list(card_id, list_id, position)
           /\ resp' = Response("move_card", token, args, HTTP_200_OK, "",
                               Some([id |-> card_id, list_id |-> cards'[card_id].list_id,
                                     position |-> cards'[card_id].position]))
           /\ UNCHANGED <<users, boards, lists, nextBoard, nextList, nextCard>>

reorder_card(token, card_id, position) ==
  LET o == card_check(token, card_id)
      args == [id |-> card_id, position |-> position]
  IN  IF o # Passed
      THEN /\ resp' = Response("reorder_card", token, args, o.code, o.detail, None)
           /\ UNCHANGED db
      ELSE /\ cards' = card_reorder(card_id, position)
           /\ resp' = Response("reorder_card", token, args, HTTP_200_OK, "",
                               Some([id |-> card_id, list_id |-> cards'[card_id].list_id,
                                     position |-> cards'[card_id].position]))
           /\ UNCHANGED <<users, boards, lists, nextBoard, nextList, nextCard>>

CardUpdates == [position : Opt(Positions), list_id : Opt(ListIds), assigned_to_id : {None}]

\* The bodies that set the assignee: assigned_to_id absent, or a user id.
CardAssignments ==
  [position : {None}, list_id : {None},
   assigned_to_id : Opt({Some(u) : u \in UserIds})]

\* get_db: the session is closed when the response has been sent; the next
\* request starts with a session of its own.
Idle == Response("none", None, <<>>, HTTP_200_OK, "", None)

Close ==
  /\ resp # Idle
  /\ resp' = Idle
  /\ before' = Snapshot
  /\ UNCHANGED db

\* ------------------------------------------- move_card, statement by statement
\* Requests run in sessions of their own, so the statements of one request
\* interleave with other requests. The move_card request in flight:
\*   pc        where the handler is
\*   card      the Card row as card_crud.get loaded it into the session
\*   board     the id of the board the owner check read
\*   pre, post history: the stored row just before and just after the commit
\*   out       the response, once there is one
NoMove ==
  [pc |-> "none", token |-> None, card_id |-> 0, list_id |-> 0, position |-> 0,
   card |-> None, board |-> None, pre |-> None, post |-> None, out |-> None]

MoveFailed(code, detail) ==
  [mv EXCEPT !.pc = "done",
             !.out = Some(Response("move_card", mv.token,
                            [id |-> mv.card_id, list_id |-> mv.list_id,
                             position |-> mv.position], code, detail, None))]

\* Session.commit on a dirty object: one UPDATE of the row, which sets the
\* columns whose assigned value differs from the value the session loaded and
\* leaves the other columns as they are stored.
flush(stored, loaded, assigned) ==
  [f \in DOMAIN stored |-> IF assigned[f] # loaded[f] THEN assigned[f] ELSE stored[f]]

\* The dependencies (the caller) and card_crud.get.
move_card_load(token, card_id, list_id, position) ==
  LET o == get_current_active_user(token)
      req == [NoMove EXCEPT !.token = token, !.card_id = card_id,
                            !.list_id = list_id, !.position = position]
      args == [id |-> card_id, list_id |-> list_id, position |-> position]
  IN  /\ mv.pc = "none"
      /\ mv' = IF o # Passed
               THEN [req EXCEPT !.pc = "done",
                       !.out = Some(Response("move_card", token, args, o.code, o.detail, None))]
               ELSE IF crud_get(cards, card_id) = None
                    THEN [req EXCEPT !.pc = "done",
                            !.out = Some(Response("move_card", token, args,
                                           HTTP_404_NOT_FOUND, "Card not found", None))]
                    ELSE [req EXCEPT !.pc = "card", !.card = crud_get(cards, card_id)]
      /\ UNCHANGED <<db, resp, before, ro>>

\* list_crud.get of the card's list, board_crud.get of its board (neither
\* checked for None) and the owner comparison.
move_card_owner ==
  /\ mv.pc = "card"
  /\ mv' = IF crud_get(lists, mv.card[1].list_id) = None
           THEN MoveFailed(HTTP_500_INTERNAL_SERVER_ERROR, "AttributeError")
           ELSE IF crud_get(boards, lists[mv.card[1].list_id].board_id) = None
                THEN MoveFailed(HTTP_500_INTERNAL_SERVER_ERROR, "AttributeError")
                ELSE IF boards[lists[mv.card[1].list_id].board_id].owner_id # mv.token[1]
                     THEN MoveFailed(HTTP_403_FORBIDDEN, "Not authorized")
                     ELSE [mv EXCEPT !.pc = "owner",
                                     !.board = Some(lists[mv.card[1].list_id].board_id)]
  /\ UNCHANGED <<db, resp, before, ro>>

\* Faulty variant: the board of the target list is not compared.
move_card_target_any_board ==
  /\ mv.pc = "owner"
  /\ mv' = IF crud_get(lists, mv.list_id) = None
           THEN MoveFailed(HTTP_404_NOT_FOUND, "Target list not found")
           ELSE [mv EXCEPT !.pc = "target"]
  /\ UNCHANGED <<db, resp, before, ro>>

\* list_crud.get of the target list and the comparison of its board.
move_card_target ==
  /\ mv.pc = "owner"
  /\ mv' = IF crud_get(lists, mv.list_id) = None
           THEN MoveFailed(HTTP_404_NOT_FOUND, "Target list not found")
           ELSE IF lists[mv.list_id].board_id # mv.board[1]
                THEN MoveFailed(HTTP_400_BAD_REQUEST,
                                "Cannot move card to a list in a different board")
                ELSE [mv EXCEPT !.pc = "target"]
  /\ UNCHANGED <<db, resp, before, ro>>

\* move_to_list up to db.commit(): the two assignments on the loaded object,
\* then the flush and the commit. An UPDATE that matches no row raises
\* (StaleDataError) and nothing is written. An UPDATE that sets list_id to a
\* list that is no longer stored is refused (IntegrityError) by a database that
\* enforces the foreign key and is written by one that does not (the engine
\* is a matter of configuration: PostgreSQL enforces it, the SQLite of the
\* tests does not).
move_card_commit ==
  /\ mv.pc = "target"
  /\ \/ /\ mv.card_id \notin DOMAIN cards
        /\ mv' = MoveFailed(HTTP_500_INTERNAL_SERVER_ERROR, "StaleDataError")
        /\ UNCHANGED cards
     \/ /\ mv.card_id \in DOMAIN cards
        /\ mv.list_id \notin DOMAIN lists
        /\ mv.list_id # mv.card[1].list_id
        /\ mv' = MoveFailed(HTTP_500_INTERNAL_SERVER_ERROR, "IntegrityError")
        /\ UNCHANGED cards
     \/ /\ mv.card_id \in DOMAIN cards
        /\ cards' = [cards EXCEPT ![mv.card_id] =
                       flush(@, mv.card[1],
                             [mv.card[1] EXCEPT !.list_id = mv.list_id,
                                                !.position = mv.position])]
        /\ mv' = [mv EXCEPT !.pc = "committed",
                            !.pre = Some(cards[mv.card_id]),
                            !.post = Some(cards'[mv.card_id])]
  /\ UNCHANGED <<users, boards, lists, nextBoard, nextList, nextCard, resp, before, ro>>

\* db.refresh(db_obj) and the return of the handler: the response shows the
\* row as it is stored now.
move_card_refresh ==
  /\ mv.pc = "committed"
  /\ mv' = IF mv.card_id \notin DOMAIN cards
           THEN MoveFailed(HTTP_500_INTERNAL_SERVER_ERROR, "InvalidRequestError")
           ELSE [mv EXCEPT !.pc = "done",
                   !.out = Some(Response("move_card", mv.token,
                                  [id |-> mv.card_id, list_id |-> mv.list_id,
                                   position |-> mv.position],
                                  HTTP_200_OK, "", Some(CardOut(mv.card_id))))]
  /\ UNCHANGED <<db, resp, before, ro>>

\* get_db closes the session of the move.
move_card_close ==
  /\ mv.pc = "done"
  /\ mv' = NoMove
  /\ UNCHANGED <<db, resp, before, ro>>

\* ------------------------------------------- reorder_card, statement by statement
\* The reorder_card requests that run side by side.
Reorderers == 1..MaxReorders

NoReorder ==
  [pc |-> "none", token |-> None, card_id |-> 0, position |-> 0,
   card |-> None, out |-> None]

ReorderOut(r, code, detail, body) ==
  [r EXCEPT !.pc = "done",
            !.out = Some(Response("reorder_card", r.token,
                           [id |-> r.card_id, position |-> r.position],
                           code, detail, body))]

\* Faulty variant: a sibling that holds the new position is pushed one down.
reorder_flush_renumbers(table, card_id, loaded, new_position) ==
  [c \in DOMAIN table |->
     IF c = card_id
     THEN flush(table[c], loaded, [loaded EXCEPT !.position = new_position])
     ELSE IF table[c].list_id = loaded.list_id /\ table[c].position = new_position
          THEN [table[c] EXCEPT !.position = new_position + 1]
          ELSE table[c]]

\* CRUDCard.reorder up to db.commit(): the assignment on the loaded object and
\* the UPDATE of its row.
reorder_flush(table, card_id, loaded, new_position) ==
  [table EXCEPT ![card_id] = flush(@, loaded, [loaded EXCEPT !.position = new_position])]

\* The dependencies (the caller) and card_crud.get.
reorder_card_load(i, token, card_id, position) ==
  LET o == get_current_active_user(token)
      req == [NoReorder EXCEPT !.token = token, !.card_id = card_id,
                               !.position = position]
  IN  /\ ro[i].pc = "none"
      /\ ro' = [ro EXCEPT ![i] =
                  IF o # Passed
                  THEN ReorderOut(req, o.code, o.detail, None)
                  ELSE IF crud_get(cards, card_id) = None
                       THEN ReorderOut(req, HTTP_404_NOT_FOUND, "Card not found", None)
                       ELSE [req EXCEPT !.pc = "card", !.card = crud_get(cards, card_id)]]
      /\ UNCHANGED <<db, resp, before, mv>>

\* list_crud.get of the card's list, board_crud.get of its board (neither
\* checked for None) and the owner comparison.
reorder_card_owner(i) ==
  /\ ro[i].pc = "card"
  /\ ro' = [ro EXCEPT ![i] =
              IF crud_get(lists, @.card[1].list_id) = None
              THEN ReorderOut(@, HTTP_500_INTERNAL_SERVER_ERROR, "AttributeError", None)
              ELSE IF crud_get(boards, lists[@.card[1].list_id].board_id) = None
                   THEN ReorderOut(@, HTTP_500_INTERNAL_SERVER_ERROR, "AttributeError", None)
                   ELSE IF boards[lists[@.card[1].list_id].board_id].owner_id # @.token[1]
                        THEN ReorderOut(@, HTTP_403_FORBIDDEN, "Not authorized", None)
                        ELSE [@ EXCEPT !.pc = "owner"]]
  /\ UNCHANGED <<db, resp, before, mv>>

\* card_crud.reorder up to db.commit().
reorder_card_commit(i) ==
  /\ ro[i].pc = "owner"
  /\ IF ro[i].card_id \notin DOMAIN cards
     THEN /\ ro' = [ro EXCEPT ![i] =
                      ReorderOut(@, HTTP_500_INTERNAL_SERVER_ERROR, "StaleDataError", None)]
          /\ UNCHANGED cards
     ELSE /\ cards' = reorder_flush(cards, ro[i].card_id, ro[i].card[1], ro[i].position)
          /\ ro' = [ro EXCEPT ![i].pc = "committed"]
  /\ UNCHANGED <<users, boards, lists, nextBoard, nextList, nextCard, resp, before, mv>>

\* db.refresh(db_obj) and the return of the handler.
reorder_card_refresh(i) ==
  /\ ro[i].pc = "committed"
  /\ ro' = [ro EXCEPT ![i] =
              IF @.card_id \notin DOMAIN cards
              THEN ReorderOut(@, HTTP_500_INTERNAL_SERVER_ERROR, "InvalidRequestError", None)
              ELSE ReorderOut(@, HTTP_200_OK, "", Some(CardOut(@.card_id)))]
  /\ UNCHANGED <<db, resp, before, mv>>

\* get_db closes the session of the request. Each of the requests runs once.
reorder_card_close(i) ==
  /\ ro[i].pc = "done"
  /\ ro' = [ro EXCEPT ![i].pc = "closed"]
  /\ UNCHANGED <<db, resp, before, mv>>

\* ----------------------------------------- user writes that follow their checks
\* user_crud.create of a register request whose checks passed before other
\* requests committed: the INSERT, which the unique constraints refuse
\* (IntegrityError) when the email or the username is stored by now.
register_create(email, username, password) ==
  LET args == [email |-> email, username |-> username]
      id == Cardinality(DOMAIN users) + 1
      row == [email |-> email, username |-> username,
              hashed_password |-> get_password_hash(password), is_active |-> TRUE]
  IN  /\ id \in UserIds
      /\ IF ~UniqueUsers(With(users, id, row))
         THEN /\ resp' = Response("register", None, args,
                                  HTTP_500_INTERNAL_SERVER_ERROR, "IntegrityError", None)
              /\ UNCHANGED db
         ELSE /\ users' = With(users, id, row)
              /\ resp' = Response("register", None, args, HTTP_201_CREATED, "",
                                  Some([id |-> id, email |-> email, username |-> username,
                                        is_active |-> TRUE]))
              /\ UNCHANGED <<boards, lists, cards, nextBoard, nextList, nextCard>>

\* user_crud.update of an update_user_me request whose checks passed before
\* other requests committed: the UPDATE, under the same constraints.
update_user_me_commit(token, user_in) ==
  /\ token # None
  /\ token[1] \in DOMAIN users
  /\ IF ~UniqueUsers(update_user_me_write(token, user_in))
     THEN /\ resp' = Response("update_user_me", token, user_in,
                              HTTP_500_INTERNAL_SERVER_ERROR, "IntegrityError", None)
          /\ UNCHANGED db
     ELSE /\ users' = update_user_me_write(token, user_in)
          /\ resp' = Response("update_user_me", token, user_in, HTTP_200_OK, "",
                              Some([id |-> token[1], email |-> users'[token[1]].email,
                                    username |-> users'[token[1]].username,
                                    is_active |-> users'[token[1]].is_active]))
          /\ UNCHANGED <<boards, lists, cards, nextBoard, nextList, nextCard>>

\* ---------------------------------------------------------------- behaviour
Init ==
  /\ users = <<>>
  /\ boards = <<>>
  /\ lists = <<>>
  /\ cards = <<>>
  /\ nextBoard = 0
  /\ nextList = 0
  /\ nextCard = 0
  /\ resp = Idle
  /\ before = Snapshot
  /\ mv = NoMove
  /\ ro = [i \in Reorderers |-> NoReorder]

\* The user endpoints, with every input.
UserRequest ==
  \/ \E e \in Emails, n \in Usernames, p \in Passwords : register(e, n, p)
  \/ \E e \in Emails, p \in Attempts : login(e, p)
  \/ \E t \in Tokens : read_current_user(t)
  \/ \E t \in Tokens, i \in UserUpdates : update_user_me(t, i)
  \/ \E t \in Tokens, p \in Attempts, q \in Passwords : update_password_me(t, p, q)

\* The board, list and card endpoints, with every input.
BoardRequest ==
  \/ \E t \in Tokens, s \in Skips, n \in Limits : list_boards(t, s, n)
  \/ \E t \in Tokens, x \in Titles : create_board(t, x)
  \/ \E t \in Tokens, b \in BoardIds : get_board(t, b)
  \/ \E t \in Tokens, b \in BoardIds, i \in BoardUpdates : update_board(t, b, i)
  \/ \E t \in Tokens, b \in BoardIds : delete_board(t, b)
  \/ \E t \in Tokens, b \in BoardIds, p \in Opt(Positions) : create_list(t, b, p)
  \/ \E t \in Tokens, l \in ListIds : get_list(t, l)
  \/ \E t \in Tokens, l \in ListIds, i \in ListUpdates : update_list(t, l, i)
  \/ \E t \in Tokens, l \in ListIds : delete_list(t, l)
  \/ \E t \in Tokens, l \in ListIds, p \in Positions : reorder_list(t, l, p)
  \/ \E t \in Tokens, l \in ListIds, p \in Opt(Positions) : create_card(t, l, p, None)
  \/ \E t \in Tokens, c \in CardIds : get_card(t, c)
  \/ \E t \in Tokens, c \in CardIds, i \in CardUpdates : update_card(t, c, i)
  \/ \E t \in Tokens, c \in CardIds : delete_card(t, c)
  \/ \E t \in Tokens, c \in CardIds, l \in ListIds, p \in Positions : move_card(t, c, l, p)
  \/ \E t \in Tokens, c \in CardIds, p \in Positions : reorder_card(t, c, p)

\* Users who signed up with username = email and kept both.
PlainUsers == \A u \in DOMAIN users : users[u].username = users[u].email

\* One request at a time, each answered before the next starts. Bound of the
\* exploration: the user endpoints are run with every input while no board
\* has been created; the board, list and card endpoints are run with every
\* input over users who signed up with username = email, who may still sign
\* up that way later.
Next ==
  \/ /\ resp = Idle
     /\ nextBoard = 0
     /\ UserRequest
     /\ before' = Snapshot
     /\ UNCHANGED <<mv, ro>>
  \/ /\ resp = Idle
     /\ PlainUsers
     /\ \/ \E e \in Emails, p \in Passwords : register(e, e, p)
        \/ BoardRequest
     /\ before' = Snapshot
     /\ UNCHANGED <<mv, ro>>
  \/ Close /\ UNCHANGED <<mv, ro>>

Spec == Init /\ [][Next]_vars

\* Concurrent requests: one move_card runs statement by statement while
\* reorder_card, get_card and get_board requests run beside it, each of them
\* in one step (what such a request reads and writes, it reads and writes in
\* one statement). The tables start full: every user signed up, every board,
\* list and card created, in any arrangement.
InitMove ==
  /\ users = [u \in UserIds |->
                [email |-> u, username |-> u,
                 hashed_password |-> get_password_hash(MaxPassword), is_active |-> TRUE]]
  /\ boards \in [BoardIds -> [owner_id : UserIds, title : {0}]]
  /\ \A b \in BoardIds \cap UserIds : boards[b].owner_id = b
  /\ lists \in [ListIds -> [board_id : BoardIds, position : {0}]]
  /\ cards \in [CardIds -> [list_id : ListIds, position : Positions, assigned_to_id : {None}]]
  /\ nextBoard = MaxBoards
  /\ nextList = MaxLists
  /\ nextCard = MaxCards
  /\ resp = Idle
  /\ before = Snapshot
  /\ mv = NoMove
  /\ ro = [i \in Reorderers |-> NoReorder]

NextMove ==
  \/ \E t \in Tokens, c \in CardIds, l \in ListIds, p \in Positions :
       move_card_load(t, c, l, p)
  \/ move_card_owner
  \/ move_card_target
  \/ move_card_commit
  \/ move_card_refresh
  \/ move_card_close
  \/ /\ resp = Idle
     /\ \/ \E t \in Tokens, c \in CardIds, p \in Positions : reorder_card(t, c, p)
        \/ \E t \in Tokens, c \in CardIds : get_card(t, c)
        \/ \E t \in Tokens, b \in BoardIds : get_board(t, b)
     /\ before' = Snapshot
     /\ UNCHANGED <<mv, ro>>
  \/ Close /\ UNCHANGED <<mv, ro>>

\* One stepwise move_card beside whole requests that write: delete_list,
\* delete_board and reorder_card.
NextRace ==
  \/ \E t \in Tokens, c \in CardIds, l \in ListIds, p \in Positions :
       move_card_load(t, c, l, p)
  \/ move_card_owner
  \/ move_card_target
  \/ move_card_commit
  \/ move_card_refresh
  \/ move_card_close
  \/ /\ resp = Idle
     /\ \/ \E t \in Tokens, l \in ListIds : delete_list(t, l)
        \/ \E t \in Tokens, b \in BoardIds : delete_board(t, b)
        \/ \E t \in Tokens, c \in CardIds, p \in Positions : reorder_card(t, c, p)
     /\ before' = Snapshot
     /\ UNCHANGED <<mv, ro>>
  \/ Close /\ UNCHANGED <<mv, ro>>

SpecMove == InitMove /\ [][NextMove]_vars

\* Reorder requests side by side, each statement by statement.
NextReorder ==
  \/ \E i \in Reorderers, t \in Tokens, c \in CardIds, p \in Positions :
       reorder_card_load(i, t, c, p)
  \/ \E i \in Reorderers : reorder_card_owner(i)
  \/ \E i \in Reorderers : reorder_card_commit(i)
  \/ \E i \in Reorderers : reorder_card_refresh(i)
  \/ \E i \in Reorderers : reorder_card_close(i)

SpecReorder == InitMove /\ [][NextReorder]_vars

\* Register and update_user_me requests, whole and interleaved: a request
\* that runs whole, or the write of one whose checks ran earlier.
NextUsers ==
  \/ /\ resp = Idle
     /\ \/ \E e \in Emails, n \in Usernames, p \in Passwords : register(e, n, p)
        \/ \E t \in Tokens, i \in UserUpdates : update_user_me(t, i)
        \/ \E e \in Emails, n \in Usernames, p \in Passwords : register_create(e, n, p)
        \/ \E t \in Tokens, i \in UserUpdates : update_user_me_commit(t, i)
     /\ before' = Snapshot
     /\ UNCHANGED <<mv, ro>>
  \/ Close /\ UNCHANGED <<mv, ro>>

SpecUsers == Init /\ [][NextUsers]_vars

\* One stepwise move_card beside whole move_card, update_card and reorder_card
\* requests.
NextCards ==
  \/ \E t \in Tokens, c \in CardIds, l \in ListIds, p \in Positions :
       move_card_load(t, c, l, p)
  \/ move_card_owner
  \/ move_card_target
  \/ move_card_commit
  \/ move_card_refresh
  \/ move_card_close
  \/ /\ resp = Idle
     /\ \/ \E t \in Tokens, c \in CardIds, l \in ListIds, p \in Positions :
             move_card(t, c, l, p)
        \/ \E t \in Tokens, c \in CardIds, i \in CardUpdates : update_card(t, c, i)
        \/ \E t \in Tokens, c \in CardIds, p \in Positions : reorder_card(t, c, p)
     /\ before' = Snapshot
     /\ UNCHANGED <<mv, ro>>
  \/ Close /\ UNCHANGED <<mv, ro>>

\* Two users with a board each, the first list on the first board, and the
\* cards at position 0 in any list.
InitCards ==
  /\ InitMove
  /\ lists[1].board_id = 1
  /\ \A c \in CardIds : cards[c].position = 0

SpecCards == InitCards /\ [][NextCards]_vars

\* One registered user, who owns the boards; every list stored, no card yet.
InitAssign ==
  /\ users = [u \in {1} |->
                [email |-> u, username |-> u,
                 hashed_password |-> get_password_hash(MaxPassword), is_active |-> TRUE]]
  /\ boards = [b \in BoardIds |-> [owner_id |-> 1, title |-> 0]]
  /\ lists \in [ListIds -> [board_id : BoardIds, position : {0}]]
  /\ cards = <<>>
  /\ nextBoard = MaxBoards
  /\ nextList = MaxLists
  /\ nextCard = 0
  /\ resp = Idle
  /\ before = Snapshot
  /\ mv = NoMove
  /\ ro = [i \in Reorderers |-> NoReorder]

\* create_card and update_card with an assignee in the body.
NextAssign ==
  \/ /\ resp = Idle
     /\ \/ \E t \in Tokens, l \in ListIds, p \in Opt(Positions), a \in Opt(UserIds) :
             create_card(t, l, p, a)
        \/ \E t \in Tokens, c \in CardIds, i \in CardAssignments : update_card(t, c, i)
     /\ before' = Snapshot
     /\ UNCHANGED <<mv, ro>>
  \/ Close /\ UNCHANGED <<mv, ro>>

SpecAssign == InitAssign /\ [][NextAssign]_vars

SpecRace == InitMove /\ [][NextRace]_vars

\* ---------------------------------------------------------------- properties
\* What a request found and what it left, read from `before`, `resp` and the
\* tables. sn is a snapshot of the database.
Succeeded == resp # Idle /\ resp.code < HTTP_400_BAD_REQUEST
Failed == resp # Idle /\ resp.code >= HTTP_400_BAD_REQUEST

\* The request came with a valid token of an active user (it passed
\* get_current_active_user), who is then the caller.
Authenticated ==
  /\ resp # Idle
  /\ resp.token # None
  /\ resp.token[1] \in DOMAIN before.users
  /\ before.users[resp.token[1]].is_active
Caller == resp.token[1]

\* The transitive owner: card -> list -> board -> owner; {} if a link is missing.
BoardOwner(sn, b) == IF b \in DOMAIN sn.boards THEN {sn.boards[b].owner_id} ELSE {}
ListOwner(sn, l) == IF l \in DOMAIN sn.lists THEN BoardOwner(sn, sn.lists[l].board_id) ELSE {}
CardOwner(sn, c) == IF c \in DOMAIN sn.cards THEN ListOwner(sn, sn.cards[c].list_id) ELSE {}

\* The board a card is in, through its list; {} if a link is missing.
BoardOfCard(sn, c) ==
  IF c \in DOMAIN sn.cards /\ sn.cards[c].list_id \in DOMAIN sn.lists
  THEN {sn.lists[sn.cards[c].list_id].board_id} ELSE {}

\* C1: whenever move_card(C, L2, p) succeeds, the stored card has list_id = L2
\* and position = p, and the card in the response shows the same two values.
C1_MoveSetsListAndPosition ==
  (resp.op = "move_card" /\ Succeeded) =>
    /\ resp.args.id \in DOMAIN cards
    /\ cards[resp.args.id].list_id = resp.args.list_id
    /\ cards[resp.args.id].position = resp.args.position
    /\ resp.body # None
    /\ resp.body[1].id = resp.args.id
    /\ resp.body[1].list_id = resp.args.list_id
    /\ resp.body[1].position = resp.args.position

\* A card was moved to another list and to another position.
C1_Witness ==
  /\ resp.op = "move_card" /\ Succeeded
  /\ before.cards[resp.args.id].list_id # resp.args.list_id
  /\ before.cards[resp.args.id].position # resp.args.position

\* The move addresses an existing card whose board the caller owns and an
\* existing target list in another board.
CrossBoardMove ==
  /\ resp.op = "move_card" /\ Authenticated
  /\ CardOwner(before, resp.args.id) = {Caller}
  /\ resp.args.list_id \in DOMAIN before.lists
  /\ BoardOfCard(before, resp.args.id) # {before.lists[resp.args.list_id].board_id}

\* C2: move_card to a list of another board fails with InvalidOperation (400,
\* "Cannot move card to a list in a different board"), also when the caller owns
\* both boards, and the card keeps its list_id and position.
C2_CrossBoardMoveRejected ==
  CrossBoardMove =>
    /\ resp.code = HTTP_400_BAD_REQUEST
    /\ resp.detail = "Cannot move card to a list in a different board"
    /\ resp.args.id \in DOMAIN cards
    /\ cards[resp.args.id] = before.cards[resp.args.id]

\* A cross-board move by a caller who owns both boards.
C2_Witness ==
  /\ CrossBoardMove
  /\ ListOwner(before, resp.args.list_id) = {Caller}

\* The outcome the claimed order of preconditions gives a move_card request.
MoveOutcomeInOrder ==
  IF resp.args.id \notin DOMAIN before.cards
  THEN Outcome(HTTP_404_NOT_FOUND, "Card not found")
  ELSE IF CardOwner(before, resp.args.id) # {Caller}
       THEN Outcome(HTTP_403_FORBIDDEN, "Not authorized")
       ELSE IF resp.args.list_id \notin DOMAIN before.lists
            THEN Outcome(HTTP_404_NOT_FOUND, "Target list not found")
            ELSE IF BoardOfCard(before, resp.args.id) #
                      {before.lists[resp.args.list_id].board_id}
                 THEN Outcome(HTTP_400_BAD_REQUEST,
                              "Cannot move card to a list in a different board")
                 ELSE Passed

\* C3: move_card checks, in this order, (1) the card exists, else NotFound,
\* (2) the caller owns the board of the card's current list, else Forbidden,
\* (3) the target list exists, else NotFound, (4) the target list is in the
\* current board, else InvalidOperation; the first failing check is the one
\* reported.
C3_MovePreconditionOrder ==
  (resp.op = "move_card" /\ Authenticated) =>
    Outcome(resp.code, resp.detail) = MoveOutcomeInOrder

\* A caller who does not own the card moves it to a list that does not exist,
\* or to a list of another board, and is told Forbidden.
C3_Witness ==
  /\ resp.op = "move_card" /\ Authenticated
  /\ resp.code = HTTP_403_FORBIDDEN
  /\ \/ resp.args.list_id \notin DOMAIN before.lists
     \/ /\ resp.args.list_id \in DOMAIN before.lists
        /\ BoardOfCard(before, resp.args.id) # {before.lists[resp.args.list_id].board_id}

BoardOps == {"update_board", "delete_board"}
ListOps == {"update_list", "delete_list", "reorder_list"}
CardOps == {"update_card", "delete_card", "reorder_card", "move_card"}

\* The owner of the entity a reorder, move, update or delete addresses.
AddressedExists ==
  \/ resp.op \in BoardOps /\ resp.args.id \in DOMAIN before.boards
  \/ resp.op \in ListOps /\ resp.args.id \in DOMAIN before.lists
  \/ resp.op \in CardOps /\ resp.args.id \in DOMAIN before.cards
AddressedOwner ==
  IF resp.op \in BoardOps THEN BoardOwner(before, resp.args.id)
  ELSE IF resp.op \in ListOps THEN ListOwner(before, resp.args.id)
  ELSE CardOwner(before, resp.args.id)

\* C4: reorder, move, update and delete of a board, list or card fail with
\* NotFound when the addressed entity does not exist and with Forbidden when
\* it exists and its transitive owner is not the caller.
C4_NotFoundThenForbidden ==
  (resp.op \in BoardOps \cup ListOps \cup CardOps /\ Authenticated) =>
    /\ ~AddressedExists => resp.code = HTTP_404_NOT_FOUND
    /\ (AddressedExists /\ AddressedOwner # {Caller}) => resp.code = HTTP_403_FORBIDDEN

\* A card of another user is addressed and the caller is told Forbidden.
C4_Witness ==
  /\ resp.op = "update_card" /\ Authenticated
  /\ AddressedExists
  /\ AddressedOwner # {Caller}
  /\ resp.code = HTTP_403_FORBIDDEN

ReadOps == {"get_board", "get_list", "get_card"}
ReadExists ==
  \/ resp.op = "get_board" /\ resp.args.id \in DOMAIN before.boards
  \/ resp.op = "get_list" /\ resp.args.id \in DOMAIN before.lists
  \/ resp.op = "get_card" /\ resp.args.id \in DOMAIN before.cards
ReadOwner ==
  IF resp.op = "get_board" THEN BoardOwner(before, resp.args.id)
  ELSE IF resp.op = "get_list" THEN ListOwner(before, resp.args.id)
  ELSE CardOwner(before, resp.args.id)

\* C5: get_board, get_list and get_card return the entity only to its
\* transitive owner; for an entity of another user the response is Forbidden
\* and carries no entity.
C5_ReadOnlyByOwner ==
  resp.op \in ReadOps =>
    /\ resp.body # None => (Authenticated /\ ReadOwner = {Caller}
                             /\ resp.body[1].id = resp.args.id)
    /\ (Authenticated /\ ReadExists /\ ReadOwner # {Caller}) =>
         (resp.code = HTTP_403_FORBIDDEN /\ resp.body = None)

\* A user asks for a card of another user's board.
C5_Witness ==
  /\ resp.op = "get_card" /\ Authenticated
  /\ ReadExists
  /\ ReadOwner # {Caller}
  /\ resp.code = HTTP_403_FORBIDDEN

\* The boards, lists and cards of snapshot sn whose transitive owner is w.
OwnedBy(sn, w) ==
  [boards |-> [b \in {x \in DOMAIN sn.boards : BoardOwner(sn, x) = {w}} |-> sn.boards[b]],
   lists |-> [l \in {x \in DOMAIN sn.lists : ListOwner(sn, x) = {w}} |-> sn.lists[l]],
   cards |-> [c \in {x \in DOMAIN sn.cards : CardOwner(sn, x) = {w}} |-> sn.cards[c]]]

\* C6: a request leaves the boards, lists and cards of every user other than
\* its caller as they were: none is created, modified or deleted.
C6_OnlyOwnEntitiesChange ==
  \A w \in UserIds :
    (resp # Idle /\ resp.token # Some(w)) => OwnedBy(Snapshot, w) = OwnedBy(before, w)

\* A user changed the database while another user owned a board with a list
\* and a card in it.
C6_Witness ==
  /\ Succeeded /\ resp.token # None
  /\ Snapshot # before
  /\ resp.op \in {"move_card", "delete_list", "create_card"}
  /\ \E w \in UserIds \ {Caller} : DOMAIN OwnedBy(before, w).cards # {}

\* C7: every list's board_id names a stored board and every card's list_id
\* names a stored list (and every board's owner_id a stored user), so that
\* the chain card -> list -> board -> owner resolves for every card and list.
C7_ChainResolvable ==
  /\ \A b \in DOMAIN boards : boards[b].owner_id \in DOMAIN users
  /\ \A l \in DOMAIN lists : lists[l].board_id \in DOMAIN boards
  /\ \A c \in DOMAIN cards : cards[c].list_id \in DOMAIN lists

\* A list that held a card was deleted while another card is stored.
C7_Witness ==
  /\ resp.op = "delete_list" /\ Succeeded
  /\ \E c \in DOMAIN before.cards : before.cards[c].list_id = resp.args.id
  /\ DOMAIN cards # {}

\* C8: after delete_board(B) no list of B and no card of a list of B is
\* stored; after delete_list(L) no card of L is stored; the lists and cards
\* of other boards (other lists) are as they were.
C8_CascadeDelete ==
  /\ (resp.op = "delete_board" /\ Succeeded) =>
       /\ resp.args.id \notin DOMAIN boards
       /\ \A l \in DOMAIN lists : lists[l].board_id # resp.args.id
       /\ \A c \in DOMAIN before.cards :
            IF BoardOfCard(before, c) = {resp.args.id}
            THEN c \notin DOMAIN cards
            ELSE c \in DOMAIN cards /\ cards[c] = before.cards[c]
       /\ \A l \in DOMAIN before.lists :
            before.lists[l].board_id # resp.args.id =>
              (l \in DOMAIN lists /\ lists[l] = before.lists[l])
       /\ \A b \in DOMAIN before.boards \ {resp.args.id} :
            b \in DOMAIN boards /\ boards[b] = before.boards[b]
  /\ (resp.op = "delete_list" /\ Succeeded) =>
       /\ resp.args.id \notin DOMAIN lists
       /\ \A c \in DOMAIN before.cards :
            IF before.cards[c].list_id = resp.args.id
            THEN c \notin DOMAIN cards
            ELSE c \in DOMAIN cards /\ cards[c] = before.cards[c]
       /\ \A l \in DOMAIN before.lists \ {resp.args.id} :
            l \in DOMAIN lists /\ lists[l] = before.lists[l]
       /\ boards = before.boards

\* A board with a list and a card was deleted while another board had a list
\* and a card of its own.
C8_Witness ==
  /\ resp.op = "delete_board" /\ Succeeded
  /\ \E c \in DOMAIN before.cards : BoardOfCard(before, c) = {resp.args.id}
  /\ DOMAIN cards # {}
  /\ DOMAIN lists # {}

\* C10: a request answered with an error leaves the users, boards, lists and
\* cards exactly as it found them.
C10_ErrorsChangeNothing ==
  Failed => Snapshot = before

\* Each of the five kinds of error has been returned: here InvalidOperation
\* from a cross-board move of the caller's own card.
C10_Witness ==
  /\ Failed
  /\ resp.op = "move_card"
  /\ resp.code = HTTP_400_BAD_REQUEST
  /\ resp.detail = "Cannot move card to a list in a different board"
  /\ DOMAIN cards # {}
\* The cards a successful get_card or get_board response shows.
ObservedCards ==
  IF resp.op = "get_card" /\ resp.body # None THEN {resp.body[1]}
  ELSE IF resp.op = "get_board" /\ resp.body # None
       THEN UNION {{resp.body[1].lists[i].cards[k] :
                      k \in DOMAIN resp.body[1].lists[i].cards} :
                   i \in DOMAIN resp.body[1].lists}
       ELSE {}

\* The move in flight has committed a change of list, and the read being
\* answered saw the moved card's row as that commit left it.
ReadAfterMove ==
  /\ mv.pc \in {"committed", "done"}
  /\ mv.pre # None
  /\ mv.pre[1].list_id # mv.list_id
  /\ resp.op \in {"get_card", "get_board"}
  /\ mv.card_id \in DOMAIN before.cards
  /\ before.cards[mv.card_id] = mv.post[1]

\* C9: a get_card or get_board that runs beside move_card(C, L2, p) never
\* shows C with list_id = L2 and the position the card had before the move
\* (when that is not p): the two columns become visible together.
C9_MoveVisibleWhole ==
  \A o \in ObservedCards :
    (ReadAfterMove /\ o.id = mv.card_id /\ o.list_id = mv.list_id) =>
      ~(o.position = mv.pre[1].position /\ mv.pre[1].position # mv.position)
\* C11: a successful reorder_card (reorder_list) sets the position of the
\* addressed card (list) to the supplied value and changes nothing else: its
\* list_id (board_id) and every other card, list, board and user are as they
\* were, also when a sibling already has that position.
C11_ReorderChangesOnlyPosition ==
  /\ (resp.op = "reorder_card" /\ Succeeded) =>
       /\ resp.args.id \in DOMAIN before.cards
       /\ cards = [before.cards EXCEPT ![resp.args.id].position = resp.args.position]
       /\ lists = before.lists /\ boards = before.boards /\ users = before.users
  /\ (resp.op = "reorder_list" /\ Succeeded) =>
       /\ resp.args.id \in DOMAIN before.lists
       /\ lists = [before.lists EXCEPT ![resp.args.id].position = resp.args.position]
       /\ cards = before.cards /\ boards = before.boards /\ users = before.users

\* A card was given a new position that a sibling in its list already has.
C11_Witness ==
  /\ resp.op = "reorder_card" /\ Succeeded
  /\ before.cards[resp.args.id].position # resp.args.position
  /\ \E c \in DOMAIN before.cards \ {resp.args.id} :
       /\ before.cards[c].list_id = before.cards[resp.args.id].list_id
       /\ before.cards[c].position = resp.args.position
\* C12: reorder_card is idempotent. In the state a successful
\* reorder_card(C, p) leaves, the same request passes its checks again and
\* writes the table that is already stored, answering with the same card; and
\* a reorder_card that finds the card at position p leaves the database as it
\* found it.
C12_ReorderIdempotent ==
  (resp.op = "reorder_card" /\ Succeeded) =>
    /\ card_check(resp.token, resp.args.id) = Passed
    /\ card_reorder(resp.args.id, resp.args.position) = cards
    /\ resp.body = Some(CardOut(resp.args.id))
    /\ before.cards[resp.args.id].position = resp.args.position => Snapshot = before

\* The second of two equal reorders: it found the card at the position it
\* asks for, next to another card.
C12_Witness ==
  /\ resp.op = "reorder_card" /\ Succeeded
  /\ before.cards[resp.args.id].position = resp.args.position
  /\ resp.args.position > 0
  /\ Cardinality(DOMAIN cards) > 1
\* A sequence of rows (records with a position) in non-decreasing order.
SortedByPosition(rows) ==
  \A i, j \in DOMAIN rows : i < j => rows[i].position <= rows[j].position

\* C13: get_multi_by_board and get_multi_by_list return the lists of a board
\* and the cards of a list in non-decreasing order of position, and so are
\* the lists and the cards of each list in a get_board response, whatever
\* creates, updates, reorders, moves and deletes came before.
C13_ListingsSorted ==
  /\ \A b \in BoardIds : \A s \in get_multi_by_board(b) :
       SortedByPosition([i \in DOMAIN s |-> lists[s[i]]])
  /\ \A l \in ListIds : \A s \in get_multi_by_list(l) :
       SortedByPosition([i \in DOMAIN s |-> cards[s[i]]])
  /\ (resp.op = "get_board" /\ resp.body # None) =>
       /\ SortedByPosition(resp.body[1].lists)
       /\ \A i \in DOMAIN resp.body[1].lists :
            SortedByPosition(resp.body[1].lists[i].cards)

\* get_board shows a list with two cards, the later created one first.
C13_Witness ==
  /\ resp.op = "get_board" /\ resp.body # None
  /\ \E i \in DOMAIN resp.body[1].lists :
       LET cs == resp.body[1].lists[i].cards IN
       /\ Len(cs) = 2
       /\ cs[1].id > cs[2].id
       /\ cs[1].position < cs[2].position
\* The places <<i, k>> of a get_board response where card c is shown: list
\* number i, card number k.
ShownAt(c) ==
  {p \in UNION {{<<i, k>> : k \in DOMAIN resp.body[1].lists[i].cards} :
                i \in DOMAIN resp.body[1].lists} :
     resp.body[1].lists[p[1]].cards[p[2]].id = c}

\* C14: a get_board(B) response shows every stored card of B exactly once,
\* under the list its list_id names, shows every list of B exactly once, and
\* shows no card of another board.
C14_BoardShowsEachCardOnce ==
  (resp.op = "get_board" /\ resp.body # None) =>
    /\ \A l \in DOMAIN lists :
         Cardinality({i \in DOMAIN resp.body[1].lists : resp.body[1].lists[i].id = l})
           = IF lists[l].board_id = resp.args.id THEN 1 ELSE 0
    /\ \A c \in DOMAIN cards :
         IF BoardOfCard(Snapshot, c) = {resp.args.id}
         THEN /\ Cardinality(ShownAt(c)) = 1
              /\ \A p \in ShownAt(c) :
                   /\ resp.body[1].lists[p[1]].id = cards[c].list_id
                   /\ resp.body[1].lists[p[1]].cards[p[2]] = CardOut(c)
         ELSE ShownAt(c) = {}

\* get_board shows a board with an empty list and a list holding a card.
C14_Witness ==
  /\ resp.op = "get_board" /\ resp.body # None
  /\ \E i, j \in DOMAIN resp.body[1].lists :
       /\ resp.body[1].lists[i].cards = <<>>
       /\ resp.body[1].lists[j].cards # <<>>
\* The boards of the caller and the ids a list_boards response shows.
OwnBoards == {b \in DOMAIN boards : boards[b].owner_id = Caller}
ShownBoards == {resp.body[1][i].id : i \in DOMAIN resp.body[1]}

\* C15 as claimed: list_boards returns exactly the set of the caller's boards.
C15_ListBoardsAllOwn ==
  (resp.op = "list_boards" /\ Succeeded) => ShownBoards = OwnBoards

\* C15 as amended: list_boards(skip, limit) returns boards of the caller only,
\* each as stored and at most once, min(limit, max(0, n - skip)) of them where
\* n is the number of the caller's boards; with skip = 0 and limit >= n these
\* are exactly the caller's boards.
C15_ListBoardsPage ==
  (resp.op = "list_boards" /\ Succeeded) =>
    LET n == Cardinality(OwnBoards)
        rest == IF n > resp.args.skip THEN n - resp.args.skip ELSE 0
    IN  /\ ShownBoards \subseteq OwnBoards
        /\ \A i \in DOMAIN resp.body[1] : resp.body[1][i] = BoardOut(resp.body[1][i].id)
        /\ Len(resp.body[1]) = Cardinality(ShownBoards)
        /\ Len(resp.body[1]) = IF rest < resp.args.limit THEN rest ELSE resp.args.limit
        /\ (resp.args.skip = 0 /\ resp.args.limit >= n) => ShownBoards = OwnBoards

\* With the default page a user who owns one of two boards is shown that one.
C15_Witness ==
  /\ resp.op = "list_boards" /\ Succeeded
  /\ resp.args.skip = 0 /\ resp.args.limit = DefaultLimit
  /\ Cardinality(OwnBoards) = 1
  /\ Cardinality(DOMAIN boards) = 2
  /\ ShownBoards = OwnBoards
\* The update_user_me request asks for an email (a username) that is not the
\* caller's and that another user has.
TakesEmail ==
  /\ resp.args.email # None
  /\ resp.args.email[1] # before.users[Caller].email
  /\ \E u \in DOMAIN before.users \ {Caller} : before.users[u].email = resp.args.email[1]
TakesUsername ==
  /\ resp.args.username # None
  /\ resp.args.username[1] # before.users[Caller].username
  /\ \E u \in DOMAIN before.users \ {Caller} :
       before.users[u].username = resp.args.username[1]

\* C16: update_user_me that changes the caller's email or username to one
\* another user has fails with Conflict (400, "Email already registered" or
\* "Username already taken") and leaves every user row as it was; a request
\* that takes nothing from another user, such as one repeating the caller's
\* own email or username, succeeds.
C16_ProfileConflict ==
  (resp.op = "update_user_me" /\ Authenticated) =>
    /\ (TakesEmail \/ TakesUsername) =>
         /\ resp.code = HTTP_400_BAD_REQUEST
         /\ resp.detail \in {"Email already registered", "Username already taken"}
         /\ users = before.users
    /\ ~(TakesEmail \/ TakesUsername) => Succeeded
\* The email (the username) of a register request is one a user already has.
EmailTaken == \E u \in DOMAIN before.users : before.users[u].email = resp.args.email
UsernameTaken == \E u \in DOMAIN before.users : before.users[u].username = resp.args.username

\* C17: register with an email or a username a user already has fails with
\* Conflict (400) and stores no user; the email is checked first, so when both
\* are taken the detail is the one about the email.
C17_RegisterConflict ==
  resp.op = "register" =>
    /\ EmailTaken =>
         /\ resp.code = HTTP_400_BAD_REQUEST
         /\ resp.detail = "Email already registered"
    /\ (~EmailTaken /\ UsernameTaken) =>
         /\ resp.code = HTTP_400_BAD_REQUEST
         /\ resp.detail = "Username already taken"
    /\ (EmailTaken \/ UsernameTaken) => Snapshot = before
    /\ ~(EmailTaken \/ UsernameTaken) => Succeeded

\* A register request whose email one user has and whose username another has.
C17_Witness ==
  /\ resp.op = "register"
  /\ \E u, v \in DOMAIN before.users :
       /\ u # v
       /\ before.users[u].email = resp.args.email
       /\ before.users[v].username = resp.args.username
  /\ resp.detail = "Email already registered"
\* The users whose email and password a login request gives.
LoginMatches ==
  {u \in DOMAIN before.users :
     /\ before.users[u].email = resp.args.email
     /\ verify_password(resp.args.password, before.users[u].hashed_password)}

\* C18 as claimed: login fails with Unauthorized (401) when the credentials
\* are wrong and when they are right but the user is inactive, and issues no
\* token in either case.
C18_LoginUnauthorized ==
  (resp.op = "login" /\ (LoginMatches = {} \/ \E u \in LoginMatches : ~before.users[u].is_active)) =>
    resp.code = HTTP_401_UNAUTHORIZED /\ resp.body = None

\* C18 as amended: login fails with 401 "Incorrect email or password" when the
\* credentials are wrong and with 400 "Inactive user" when they are right and
\* the user is inactive; neither response carries a token, and right
\* credentials of an active user get a token for that user.
C18_LoginFailures ==
  resp.op = "login" =>
    /\ LoginMatches = {} =>
         /\ resp.code = HTTP_401_UNAUTHORIZED
         /\ resp.detail = "Incorrect email or password"
         /\ resp.body = None
    /\ (\E u \in LoginMatches : ~before.users[u].is_active) =>
         /\ resp.code = HTTP_400_BAD_REQUEST
         /\ resp.detail = "Inactive user"
         /\ resp.body = None
    /\ (\E u \in LoginMatches : before.users[u].is_active) =>
         /\ resp.code = HTTP_200_OK
         /\ resp.body # None
         /\ resp.body[1].access_token # None
         /\ resp.body[1].access_token[1] \in LoginMatches
    /\ Snapshot = before

\* A user who set is_active to false logs in with the right password.
C18_Witness ==
  /\ resp.op = "login"
  /\ \E u \in LoginMatches : ~before.users[u].is_active
  /\ resp.code = HTTP_400_BAD_REQUEST

\* The ownership walk of the move in flight has ended the request: the card
\* was loaded and no board was resolved.
WalkFailed ==
  /\ mv.pc = "done"
  /\ mv.card # None
  /\ mv.board = None

\* C19: ownership resolution fails with NotFound when a link of the chain
\* card -> list -> board is missing at the time of the walk, and in no other
\* way: a request whose walk does not resolve an owner it accepts ends 404
\* (a link missing) or 403 (the chain complete, another owner), never
\* otherwise.
C19_WalkFailsNotFound ==
  WalkFailed => mv.out[1].code \in {HTTP_403_FORBIDDEN, HTTP_404_NOT_FOUND}
\* C20: the checks of a move and its commit observe one state: the row the
\* commit overwrites is the row the checks loaded (no change another request
\* committed to the card in between is discarded), and no stored card is in a
\* list that is not stored (a move never places a card in a list deleted
\* after the target-list check passed).
C20_ChecksAndCommitOneState ==
  /\ mv.pc = "committed" => mv.pre = mv.card
  /\ \A c \in DOMAIN cards : cards[c].list_id \in DOMAIN lists
\* The position a create request asks for: the one of its body, 0 without one.
AskedPosition == IF resp.args.position = None THEN 0 ELSE resp.args.position[1]

\* C21: a successful create_card (create_list) stores one new row with the
\* position of the request (0 when the request has none) under the addressed
\* list (board), and leaves every other row, the position of each sibling
\* included, as it was.
C21_CreateKeepsSiblings ==
  /\ (resp.op = "create_card" /\ Succeeded) =>
       /\ resp.body[1].id \notin DOMAIN before.cards
       /\ cards = With(before.cards, resp.body[1].id,
                       [list_id |-> resp.args.list_id, position |-> AskedPosition,
                        assigned_to_id |-> resp.args.assigned_to_id])
       /\ resp.body[1].position = AskedPosition
       /\ lists = before.lists /\ boards = before.boards /\ users = before.users
  /\ (resp.op = "create_list" /\ Succeeded) =>
       /\ resp.body[1].id \notin DOMAIN before.lists
       /\ lists = With(before.lists, resp.body[1].id,
                       [board_id |-> resp.args.board_id, position |-> AskedPosition])
       /\ resp.body[1].position = AskedPosition
       /\ cards = before.cards /\ boards = before.boards /\ users = before.users

\* A card was created without a position in a list that has a card at 0.
C21_Witness ==
  /\ resp.op = "create_card" /\ Succeeded
  /\ resp.args.position = None
  /\ \E c \in DOMAIN before.cards :
       /\ before.cards[c].list_id = resp.args.list_id
       /\ before.cards[c].position = 0
\* C22: no request changes the owner_id of a stored board or the board_id of
\* a stored list, whatever its body carries: every board and list stored
\* before and after a request has the owner and the board it had before, and
\* a board or list that is new has an id no earlier one had.
C22_OwnerAndBoardFixed ==
  /\ \A b \in DOMAIN boards \cap DOMAIN before.boards :
       boards[b].owner_id = before.boards[b].owner_id
  /\ \A l \in DOMAIN lists \cap DOMAIN before.lists :
       lists[l].board_id = before.lists[l].board_id
  /\ DOMAIN boards \ DOMAIN before.boards \subseteq {nextBoard} \ {before.nextBoard}
  /\ DOMAIN lists \ DOMAIN before.lists \subseteq {nextList} \ {before.nextList}

\* An update_board whose body names another user as owner has succeeded.
C22_Witness ==
  /\ resp.op = "update_board" /\ Succeeded
  /\ resp.args.owner_id # None
  /\ resp.args.owner_id[1] # before.boards[resp.args.id].owner_id
\* Reorder requests i and j have both been answered, and they address two
\* different cards of one list with the same position.
ReorderedTogether(i, j) ==
  /\ i # j
  /\ ro[i].pc \in {"done", "closed"} /\ ro[j].pc \in {"done", "closed"}
  /\ ro[i].card # None /\ ro[j].card # None
  /\ ro[i].card_id # ro[j].card_id
  /\ ro[i].card[1].list_id = ro[j].card[1].list_id
  /\ ro[i].position = ro[j].position

\* C23: two reorder_card requests that run side by side on two different
\* cards of one list with the same position are each answered as if alone
\* (200 with the card at that position when the caller owns the board, 403
\* otherwise), and afterwards both cards are stored with that position.
C23_ConcurrentReordersBothApply ==
  \A i, j \in Reorderers :
    ReorderedTogether(i, j) =>
      /\ ro[i].out[1].code = card_check(ro[i].token, ro[i].card_id).code
      /\ card_check(ro[i].token, ro[i].card_id) = Passed =>
           /\ ro[i].out[1].body =
                Some([id |-> ro[i].card_id, list_id |-> ro[i].card[1].list_id,
                      position |-> ro[i].position])
           /\ cards[ro[i].card_id].position = ro[i].position
           /\ cards[ro[i].card_id].list_id = ro[i].card[1].list_id

\* Both requests were accepted while the session of the other was still
\* open, and both cards moved to a position neither had.
C23_Witness ==
  \E i, j \in Reorderers :
    /\ ReorderedTogether(i, j)
    /\ ro[i].pc = "done" /\ ro[j].pc = "done"
    /\ ro[i].out[1].code = HTTP_200_OK /\ ro[j].out[1].code = HTTP_200_OK
    /\ ro[i].card[1].position # ro[i].position
    /\ ro[j].card[1].position # ro[j].position
\* C24: in every state reached by register and update_user_me requests, run
\* whole or interleaved, no two stored users have the same email and no two
\* have the same username.
C24_UsersUnique ==
  \A u, v \in DOMAIN users :
    u # v => users[u].email # users[v].email /\ users[u].username # users[v].username

\* A register whose checks had passed reached its INSERT after another
\* request stored the same email, and was refused.
C24_Witness ==
  /\ resp.op = "register"
  /\ resp.code = HTTP_500_INTERNAL_SERVER_ERROR
  /\ \E u \in DOMAIN users : users[u].email = resp.args.email
\* The error kind of the response, by the raise statement that produced it;
\* "none" for a success, for an uncaught exception and for "Inactive user".
ErrorKind ==
  IF resp.detail \in {"Board not found", "List not found", "Card not found",
                      "Target list not found"}
  THEN "NotFound"
  ELSE IF resp.detail = "Not authorized" THEN "Forbidden"
  ELSE IF resp.detail \in {"Email already registered", "Username already taken"}
  THEN "Conflict"
  ELSE IF resp.detail \in {"Cannot move card to a list in a different board",
                           "Incorrect password"}
  THEN "InvalidOperation"
  ELSE IF resp.detail \in {"Could not validate credentials",
                           "Incorrect email or password"}
  THEN "Unauthorized"
  ELSE "none"

\* The status each error kind is reported with.
KindStatus ==
  [NotFound |-> HTTP_404_NOT_FOUND, Forbidden |-> HTTP_403_FORBIDDEN,
   Conflict |-> HTTP_400_BAD_REQUEST, InvalidOperation |-> HTTP_400_BAD_REQUEST,
   Unauthorized |-> HTTP_401_UNAUTHORIZED]

\* C25 as claimed: a response of one error kind has a status that no other
\* kind is reported with.
C25_KindsHaveOwnStatus ==
  ErrorKind # "none" =>
    \A k \in DOMAIN KindStatus \ {ErrorKind} : resp.code # KindStatus[k]

\* C25 as amended: every response of an error kind has the status of its
\* kind; NotFound (404), Forbidden (403) and Unauthorized (401) have a status
\* no other kind has, and Conflict and InvalidOperation are both reported
\* with 400 and differ in the detail text only.
C25_KindStatuses ==
  /\ ErrorKind # "none" => resp.code = KindStatus[ErrorKind]
  /\ ErrorKind \in {"NotFound", "Forbidden", "Unauthorized"} =>
       \A k \in DOMAIN KindStatus \ {ErrorKind} : resp.code # KindStatus[k]
  /\ ErrorKind \in {"Conflict", "InvalidOperation"} =>
       /\ resp.code = HTTP_400_BAD_REQUEST
       /\ \A k \in DOMAIN KindStatus \ {"Conflict", "InvalidOperation"} :
            resp.code # KindStatus[k]

\* A register was refused for a taken email with the status a cross-board
\* move is refused with.
C25_Witness ==
  /\ resp.op = "register"
  /\ ErrorKind = "Conflict"
  /\ resp.code = KindStatus["InvalidOperation"]
\* The boards, lists and cards that were stored once and are stored no more.
GoneBoards == (1..before.nextBoard) \ DOMAIN before.boards
GoneLists == (1..before.nextList) \ DOMAIN before.lists
GoneCards == (1..before.nextCard) \ DOMAIN before.cards

\* C26: what delete_board removed stays removed. A successful delete_board
\* leaves the board, its lists and their cards unstored; a board, list or
\* card that is gone is never stored again (every stored list is of a stored
\* board, every stored card in a stored list); and every request of an
\* authenticated caller that addresses a gone board, list or card is
\* answered 404.
C26_DeletedStaysGone ==
  /\ (resp.op = "delete_board" /\ Succeeded) =>
       /\ resp.args.id \notin DOMAIN boards
       /\ \A l \in DOMAIN before.lists :
            before.lists[l].board_id = resp.args.id => l \notin DOMAIN lists
       /\ \A c \in DOMAIN before.cards :
            before.lists[before.cards[c].list_id].board_id = resp.args.id =>
              c \notin DOMAIN cards
  /\ GoneBoards \cap DOMAIN boards = {}
  /\ GoneLists \cap DOMAIN lists = {}
  /\ GoneCards \cap DOMAIN cards = {}
  /\ DOMAIN boards \subseteq 1..nextBoard
  /\ DOMAIN lists \subseteq 1..nextList
  /\ DOMAIN cards \subseteq 1..nextCard
  /\ \A l \in DOMAIN lists : lists[l].board_id \in DOMAIN boards
  /\ \A c \in DOMAIN cards : cards[c].list_id \in DOMAIN lists
  /\ Authenticated =>
       /\ (resp.op \in {"get_board", "update_board", "delete_board"}
             /\ resp.args.id \in GoneBoards) => resp.code = HTTP_404_NOT_FOUND
       /\ (resp.op = "create_list" /\ resp.args.board_id \in GoneBoards) =>
            resp.code = HTTP_404_NOT_FOUND
       /\ (resp.op \in {"get_list", "update_list", "delete_list", "reorder_list"}
             /\ resp.args.id \in GoneLists) => resp.code = HTTP_404_NOT_FOUND
       /\ (resp.op = "create_card" /\ resp.args.list_id \in GoneLists) =>
            resp.code = HTTP_404_NOT_FOUND
       /\ (resp.op \in {"get_card", "update_card", "delete_card", "reorder_card",
                        "move_card"}
             /\ resp.args.id \in GoneCards) => resp.code = HTTP_404_NOT_FOUND
       /\ (resp.op = "move_card" /\ resp.args.id \in DOMAIN before.cards
             /\ resp.args.list_id \in GoneLists) =>
            resp.code \in {HTTP_403_FORBIDDEN, HTTP_404_NOT_FOUND}

\* A request for a board that is gone, made while another board is stored and
\* a list and a card are gone too, is answered 404.
C26_Witness ==
  /\ resp.op = "get_board"
  /\ Authenticated
  /\ resp.args.id \in GoneBoards
  /\ GoneLists # {} /\ GoneCards # {}
  /\ DOMAIN before.boards # {}
  /\ resp.code = HTTP_404_NOT_FOUND
\* C27: a card stays under the board it was under: every card stored now and
\* when the last whole request began is under the same board in both states,
\* and the row a move commits is under the board of the row it replaces.
C27_CardKeepsBoard ==
  /\ \A c \in DOMAIN cards \cap DOMAIN before.cards :
       BoardOfCard(Snapshot, c) = BoardOfCard(before, c)
  /\ mv.pc = "committed" =>
       lists[mv.post[1].list_id].board_id = lists[mv.pre[1].list_id].board_id

\* A move in flight has committed a change of list after another request
\* had moved the card since the move loaded it.
C27_Witness ==
  /\ mv.pc = "committed"
  /\ mv.pre[1].list_id # mv.card[1].list_id
  /\ mv.post[1].list_id = mv.list_id
\* C28: the assignee of every stored card is null or a stored user.
C28_AssigneeNullOrUser ==
  \A c \in DOMAIN cards :
    cards[c].assigned_to_id = None \/ cards[c].assigned_to_id[1] \in DOMAIN users
\* The request being answered came with a token of a stored user whose
\* is_active was false when the request arrived.
ByInactive ==
  /\ resp # Idle
  /\ resp.token # None
  /\ resp.token[1] \in DOMAIN before.users
  /\ ~before.users[resp.token[1]].is_active

\* C29: inactivity is final for the requests of the user. A user stored as
\* inactive is inactive after every request; every request with that user's
\* token is answered 400 "Inactive user" and changes nothing; and a login
\* with that user's credentials is answered 400 without a token.
C29_InactiveStaysInactive ==
  /\ \A u \in DOMAIN before.users :
       ~before.users[u].is_active => u \in DOMAIN users /\ ~users[u].is_active
  /\ ByInactive =>
       /\ resp.code = HTTP_400_BAD_REQUEST
       /\ resp.detail = "Inactive user"
       /\ resp.body = None
       /\ Snapshot = before
  /\ (resp.op = "login" /\ \E u \in LoginMatches : ~before.users[u].is_active) =>
       /\ resp.code = HTTP_400_BAD_REQUEST
       /\ resp.body = None

\* A user who is inactive asked to be made active again and was refused.
C29_Witness ==
  /\ ByInactive
  /\ resp.op = "update_user_me"
  /\ resp.args.is_active = Some(TRUE)
  /\ resp.code = HTTP_400_BAD_REQUEST
  /\ ~users[resp.token[1]].is_active
\* The request being answered is a move_card to the list its card was in.
MoveWithinList ==
  /\ resp.op = "move_card"
  /\ resp.args.id \in DOMAIN before.cards
  /\ resp.args.list_id = before.cards[resp.args.id].list_id

\* C30: move_card(C, L, p) with L the list C is in is answered as
\* reorder_card(C, p) is (200 for the owner of the board, else the outcome of
\* the ownership checks) and, when accepted, has the effect of that reorder:
\* the position of C is p, its list_id is L, every other row is as it was, and
\* the response shows the card so.
C30_MoveWithinListIsReorder ==
  MoveWithinList =>
    /\ resp.code = card_check(resp.token, resp.args.id).code
    /\ resp.detail = card_check(resp.token, resp.args.id).detail
    /\ Succeeded =>
         /\ cards = [before.cards EXCEPT ![resp.args.id].position = resp.args.position]
         /\ cards[resp.args.id].list_id = resp.args.list_id
         /\ lists = before.lists /\ boards = before.boards /\ users = before.users
         /\ resp.body = Some([id |-> resp.args.id, list_id |-> resp.args.list_id,
                              position |-> resp.args.position])
    /\ Failed => Snapshot = before

\* A move to the card's own list was accepted and changed its position.
C30_Witness ==
  /\ MoveWithinList
  /\ Succeeded
  /\ before.cards[resp.args.id].position # resp.args.position
====
